---- MODULE Spec2Model ----
(***************************************************************************)
(* Model of the video decode-and-playback pipeline of video-tagger:        *)
(*   src/src/lib.rs          StreamClock, VideoDecoder, App                 *)
(*   src/src/video_player.rs VideoPlayer                                    *)
(*                                                                         *)
(* Threads: the UI thread (switcher closure, VideoPlayer::new/start/drop),  *)
(* the "Playback Thread" (open, VideoDecoder::start, packet forwarder) and  *)
(* the "Receiver Thread" (packet receiver, decode, pacing, frame callback). *)
(* Time is a global millisecond counter advanced by Tick.                   *)
(***************************************************************************)
EXTENDS Integers, Sequences, FiniteSets, TLC

(* ------------------------------------------------------------------ *)
(* Bounds of the model                                                  *)
(* ------------------------------------------------------------------ *)
\* longest container (number of packets read by ictx.packets())
MaxPackets == 3
\* capacity of the packet channel; the program uses 128 (lib.rs:93), the
\* model a smaller buffer so that a full channel is reached
ChannelCapacity == 2
\* wall clock: Tick advances `now` by TickMs; without a sleeper it stops
\* at MaxNowMs
TickMs == 40
MaxNowMs == 40
\* rows of a decoded frame / of the texture in the display slot
FrameRows == 2
\* widest frame, in pixels, and longest padding of a row of the converted
\* frame, in bytes, given to a separate run of the row copy
MaxFrameWidth == 3
MaxPadding == 2
\* most changes of App::video_source
MaxSources == 3
\* most calls of send_control_message by the owner of the VideoDecoder
MaxControl == 2
\* largest magnitude of a pts given to a separate call of the clock
MaxClockPts == 50

(* ------------------------------------------------------------------ *)
(* Option values: None is the empty sequence, Some(x) a singleton       *)
(* ------------------------------------------------------------------ *)
None == << >>
Some(x) == << x >>
IsSome(o) == Len(o) = 1
Unwrap(o) == o[1]

(* ------------------------------------------------------------------ *)
(* Inputs: the container files the user may pick                        *)
(* ------------------------------------------------------------------ *)
\* index of the best video stream of every source, and of another stream
VideoStreamIdx == 0
OtherStreamIdx == 1

\* A packet: its stream index, whether the codec accepts it (send_packet
\* returns Ok) and the presentation timestamps of the frames the codec
\* yields once it has been fed.
Packet(stream, ok, frames) == [stream |-> stream, ok |-> ok, frames |-> frames]

\* The packets a container is made of: a packet of another stream, a video
\* packet the codec rejects, a video packet that yields no frame, and a
\* video packet that yields two frames, the first without pts and the
\* second with the pts of its place in the container (0 for the first).
PacketKinds == { "other", "fail", "empty", "video" }

PacketAt(kind, i) ==
    CASE kind = "other" -> Packet(OtherStreamIdx, TRUE, << >>)
      [] kind = "fail"  -> Packet(VideoStreamIdx, FALSE, << >>)
      [] kind = "empty" -> Packet(VideoStreamIdx, TRUE, << >>)
      [] kind = "video" -> Packet(VideoStreamIdx, TRUE, << None, Some(i - 1) >>)

Containers ==
    { [i \in DOMAIN kinds |-> PacketAt(kinds[i], i)] :
        kinds \in UNION { [1..k -> PacketKinds] : k \in 0..MaxPackets } }

\* time base of the selected stream, a rational number of seconds per tick
TimeBases == { [num |-> 1, den |-> 25] }

Source(openOk, hasVideo, codecOk, tb, packets) ==
    [openOk |-> openOk, hasVideo |-> hasVideo, codecOk |-> codecOk,
     time_base |-> tb, packets |-> packets]

Sources ==
    { Source(FALSE, FALSE, FALSE, tb, << >>) : tb \in TimeBases } \cup
    { Source(TRUE, FALSE, FALSE, tb, << >>) : tb \in TimeBases } \cup
    { Source(TRUE, TRUE, FALSE, tb, << >>) : tb \in TimeBases } \cup
    { Source(TRUE, TRUE, TRUE, tb, ps) :
        tb \in TimeBases, ps \in Containers }

NoSource == Source(FALSE, FALSE, FALSE, [num |-> 0, den |-> 1], << >>)

\* A 25 fps source: time base 1/25, PacingFrames video packets, packet i
\* yielding one frame with pts i - 1 (0, 1, 2, ...)
PacingFrames == 5

Source25fps ==
    Source(TRUE, TRUE, TRUE, [num |-> 1, den |-> 25],
           [i \in 1..PacingFrames |-> Packet(VideoStreamIdx, TRUE, << Some(i - 1) >>)])

(* ------------------------------------------------------------------ *)
(* StreamClock                                                          *)
(* ------------------------------------------------------------------ *)
\* Results of a call that may panic
Ok(v) == [kind |-> "ok", val |-> v]
Panic == [kind |-> "panic", val |-> None]

\* StreamClock::new: time_base_seconds = numerator / denominator, and the
\* start instant is the instant of construction.
StreamClockNew(tb, instant) == [time_base |-> tb, start_time |-> instant]

NoClock == StreamClockNew([num |-> 0, den |-> 1], 0)

\* pts as f64 * time_base_seconds, in milliseconds
PtsMillis(clock, pts) == (pts * 1000 * clock.time_base.num) \div clock.time_base.den

\* Duration::from_secs_f64 panics on a negative value (and on one too large
\* for a Duration, which no pts within the bounds of this model reaches, as
\* little as the overflow that makes Instant::checked_add return None)
DurationFromSecsF64(ms) == IF ms < 0 THEN Panic ELSE Ok(ms)

\* Instant::duration_since saturates to zero when `earlier` is later
DurationSinceUnsaturated(instant, earlier) == instant - earlier

DurationSince(instant, earlier) == IF instant >= earlier THEN instant - earlier ELSE 0

\* StreamClock::convert_pts_to_instant evaluated at the instant `instant`:
\* Ok(None), Ok(Some(delay in ms)) or Panic
ConvertPtsNoneAsZero(clock, pts, instant) ==
    IF ~IsSome(pts)
    THEN Ok(Some(0))
    ELSE LET d == DurationFromSecsF64(PtsMillis(clock, Unwrap(pts)))
         IN IF d.kind = "panic"
            THEN Panic
            ELSE Ok(Some(DurationSince(clock.start_time + d.val, instant)))

convert_pts_to_instant(clock, pts, instant) ==
    IF ~IsSome(pts)
    THEN Ok(None)
    ELSE LET d == DurationFromSecsF64(PtsMillis(clock, Unwrap(pts)))
         IN IF d.kind = "panic"
            THEN Panic
            ELSE Ok(Some(DurationSince(clock.start_time + d.val, instant)))

\* A call of convert_pts_to_instant on its own: the clock, the pts, the
\* instant of the call and the result
ClockCallOf(c, pts, instant) ==
    [clock |-> c, pts |-> pts, instant |-> instant,
     result |-> convert_pts_to_instant(c, pts, instant)]

NoCall == [clock |-> NoClock, pts |-> None, instant |-> -1, result |-> Ok(None)]

\* Inputs of the separate calls: start instants, how long after the start
\* the call is made, and the pts values
ClockStarts == { 0, 1000 }
ClockLateness == { 0, 20, 40, 100, 2000, 2040 }
ClockPts == { None } \cup { Some(p) : p \in (0 - MaxClockPts)..MaxClockPts }

(* ------------------------------------------------------------------ *)
(* Channels and the display slot                                        *)
(* ------------------------------------------------------------------ *)
\* std::sync::mpsc: a receive takes the oldest queued message
ChannelRecvNewest(q) == [msg |-> q[Len(q)], rest |-> SubSeq(q, 1, Len(q) - 1)]

ChannelRecv(q) == [msg |-> Head(q), rest |-> Tail(q)]

\* SyncSender::send can enqueue only while the buffer holds fewer than the
\* bound given to sync_channel
ChannelHasRoom(q) == Len(q) < ChannelCapacity

\* A texture: one tag per row naming the frame the row was copied from;
\* <<0, 0>> tags the rows of the placeholder image of VideoPlayer::new
PlaceholderTag == << 0, 0 >>
FrameTag(pkt, frm) == << pkt, frm >>
PlaceholderTexture == [r \in 1..FrameRows |-> PlaceholderTag]

\* Dynamic::set replaces the stored value by the new one
DynamicSetFirstRowOnly(old, texture) == [old EXCEPT ![1] = texture[1]]

DynamicSet(old, texture) == texture

(* ------------------------------------------------------------------ *)
(* Frame callback: the copy of the converted frame into the pixel       *)
(* buffer                                                               *)
(* ------------------------------------------------------------------ *)
\* std::mem::size_of::<Rgb<u8>>()
BytesPerPixel == 3

\* ImageBuffer::<Rgb<u8>, Vec<u8>>::new(width, height): a zeroed buffer of
\* width * height pixels
ImageBufferNew(width, height) == [k \in 1..(width * height * BytesPerPixel) |-> 0]

\* slice::chunks_exact(n): the consecutive whole chunks of n elements
ChunksExact(data, n) == [r \in 1..(Len(data) \div n) |-> SubSeq(data, (r - 1) * n + 1, r * n)]

\* the last len bytes of a source line
SourceTail(source, len) == SubSeq(source, Len(source) - len + 1, Len(source))

\* &source[..len]: the first len bytes of a source line
SourcePrefix(source, len) == SubSeq(source, 1, len)

\* dest.copy_from_slice(..) on line r of pixel_buffer.chunks_mut(line_len)
CopyIntoLine(buffer, line_len, r, bytes) ==
    [k \in DOMAIN buffer |->
        IF (r - 1) * line_len < k /\ k <= r * line_len
        THEN bytes[k - (r - 1) * line_len]
        ELSE buffer[k]]

\* rgb_frame as the rescaler leaves it: width, height, stride(0) and
\* data(0), stride * height bytes; the byte at offset k (from 1) has the
\* value first + k, so that every byte of the plane is told apart
FirstBytes == { 1, 51, 101 }

RgbFrame(width, height, padding, first) ==
    [width |-> width, height |-> height,
     stride |-> width * BytesPerPixel + padding,
     data |-> [k \in 1..((width * BytesPerPixel + padding) * height) |-> first + k]]

\* A run of the copy: the frame, the pixel buffer and the next line
ConvertOf(rgb_frame) ==
    [rgb_frame |-> rgb_frame,
     pixel_buffer |-> ImageBufferNew(rgb_frame.width, rgb_frame.height),
     line |-> 1]

NoConvert == [rgb_frame |-> RgbFrame(0, 0, 0, 0), pixel_buffer |-> << >>, line |-> 0]

\* lines the zip of source_line_iter and pixel_line_iter yields
ZippedLines(call) ==
    LET sources == Len(ChunksExact(call.rgb_frame.data, call.rgb_frame.stride))
        dests == Len(ChunksExact(call.pixel_buffer, call.rgb_frame.width * BytesPerPixel))
    IN  IF sources < dests THEN sources ELSE dests

(* ------------------------------------------------------------------ *)
(* State                                                                *)
(* ------------------------------------------------------------------ *)
VARIABLES
    now,              \* wall clock, ms
    video_source,     \* App::video_source: None or Some(source)
    player,           \* the VideoPlayer built by the switcher closure
    contents,         \* VideoPlayer::contents, the display slot
    playback,         \* position of the Playback Thread
    panic_cause,      \* why the Playback Thread panicked, if it did
    next_packet,      \* index of the next packet ictx.packets() will yield
    sending,          \* index of the packet passed to receive_packet
    forwarder_done,   \* packet_forwarder_impl has completed
    packet_sender,    \* VideoDecoder::packet_sender exists
    control_sender,   \* VideoDecoder::control_sender exists
    packet_receiver,  \* receiving end of the packet channel exists
    control_receiver, \* receiving end of the control channel exists
    queue,            \* packets buffered in the packet channel
    clock,            \* the StreamClock moved into the Receiver Thread
    worker,           \* position of the Receiver Thread
    receiver_done,    \* packet_receiver_impl has completed
    packet,           \* index of the packet the worker holds
    frame,            \* index of the frame being drained from `packet`
    wake,             \* instant the pacing sleep ends
    pixel_buffer,     \* rows copied so far by the frame callback
    forwarded,        \* history: receive_packet calls, <<packet, result>>
    received,         \* history: packets taken from the channel
    fed,              \* history: packets accepted by send_packet
    delivered,        \* history: frames passed to frame_callback
    observed,         \* the texture the last redraw / layout read
    writers,          \* history: threads that have set `contents`
    control_sent,     \* history: commands passed to send_control_message
    stop_mark,        \* history: Len(received) when Stop was first sent
    pause_mark,       \* history: Len(received) at the last Pause not yet
                      \* followed by Play
    clock_call,       \* the last separate call of convert_pts_to_instant
    convert_call,     \* a separate run of the row copy of the frame callback
    sessions          \* one entry per run of the switcher closure on Some(path)

uiVars == << video_source, player >>
playbackVars == << playback, panic_cause, next_packet, sending, forwarder_done >>
channelVars == << packet_sender, control_sender, packet_receiver, control_receiver, queue >>
workerVars == << worker, receiver_done, packet, frame, wake, pixel_buffer >>
displayVars == << contents, observed, writers >>
historyVars == << forwarded, received, fed, delivered >>
controlVars == << control_sent, stop_mark, pause_mark >>

vars == << now, uiVars, playbackVars, channelVars, clock, workerVars,
           displayVars, historyVars, controlVars, clock_call, convert_call, sessions >>

TheSource == Unwrap(video_source)
Packets == TheSource.packets

Init ==
    /\ now = 0
    /\ video_source = None
    /\ player = [alive |-> FALSE, playback_thread |-> FALSE]
    /\ contents = PlaceholderTexture
    /\ playback = "unspawned"
    /\ panic_cause = "none"
    /\ next_packet = 1
    /\ sending = 0
    /\ forwarder_done = FALSE
    /\ packet_sender = FALSE
    /\ control_sender = FALSE
    /\ packet_receiver = FALSE
    /\ control_receiver = FALSE
    /\ queue = << >>
    /\ clock = NoClock
    /\ worker = "unspawned"
    /\ receiver_done = FALSE
    /\ packet = 0
    /\ frame = 0
    /\ wake = 0
    /\ pixel_buffer = << >>
    /\ forwarded = << >>
    /\ received = << >>
    /\ fed = << >>
    /\ delivered = << >>
    /\ observed = PlaceholderTexture
    /\ writers = {}
    /\ control_sent = << >>
    /\ stop_mark = -1
    /\ pause_mark = -1
    /\ clock_call = NoCall
    /\ convert_call = NoConvert
    /\ sessions = << >>

(* ------------------------------------------------------------------ *)
(* Wall clock                                                           *)
(* ------------------------------------------------------------------ *)
\* Time passes up to MaxNowMs, and beyond it while a pacing sleep waits.
Tick ==
    /\ \/ now + TickMs <= MaxNowMs
       \/ worker = "sleep" /\ now < wake
    /\ now' = now + TickMs
    /\ UNCHANGED << uiVars, playbackVars, channelVars, clock, workerVars,
                    displayVars, historyVars, controlVars, clock_call, convert_call, sessions >>

(* ------------------------------------------------------------------ *)
(* UI thread: App::handle_video_source, VideoPlayer                     *)
(* ------------------------------------------------------------------ *)
\* file_picker sets video_source to Some(path); the switcher closure runs
\* VideoPlayer::new().start(..), which spawns the Playback Thread and
\* stores its JoinHandle.
OpenVideo(src) ==
    /\ video_source = None
    /\ video_source' = Some(src)
    /\ player' = [alive |-> TRUE, playback_thread |-> TRUE]
    /\ contents' = PlaceholderTexture
    /\ playback' = "input"
    /\ UNCHANGED << now, panic_cause, next_packet, sending, forwarder_done,
                    channelVars, clock, workerVars, observed, writers,
                    historyVars, controlVars, clock_call, convert_call, sessions >>

\* impl Drop for VideoPlayer: takes the JoinHandle and drops it, which
\* detaches the thread; nothing is sent and nothing is joined.
DropVideoPlayer ==
    /\ player.alive
    /\ player' = [alive |-> FALSE, playback_thread |-> FALSE]
    /\ UNCHANGED << now, video_source, playbackVars, channelVars, clock,
                    workerVars, displayVars, historyVars, controlVars, clock_call, convert_call, sessions >>

\* Widget::redraw / Widget::layout: map_ref reads the stored texture
Redraw ==
    /\ player.alive
    /\ observed' = contents
    /\ UNCHANGED << now, uiVars, playbackVars, channelVars, clock, workerVars,
                    contents, writers, historyVars, controlVars, clock_call, convert_call, sessions >>

(* ------------------------------------------------------------------ *)
(* Playback Thread: the closure given to VideoPlayer::start             *)
(* ------------------------------------------------------------------ *)
\* A panic unwinds the thread: everything it owns is dropped, the
\* VideoDecoder with both senders included.
PlaybackPanics(cause) ==
    /\ playback' = "panicked"
    /\ panic_cause' = cause
    /\ packet_sender' = FALSE
    /\ control_sender' = FALSE

\* ffmpeg::format::input(&path).unwrap()
PlaybackInput ==
    /\ playback = "input"
    /\ IF TheSource.openOk
       THEN /\ playback' = "best"
            /\ UNCHANGED << panic_cause, packet_sender, control_sender >>
       ELSE PlaybackPanics("OpenError")
    /\ UNCHANGED << now, uiVars, next_packet, sending, forwarder_done,
                    packet_receiver, control_receiver, queue, clock, workerVars,
                    displayVars, historyVars, controlVars, clock_call, convert_call, sessions >>

\* ictx.streams().best(Type::Video).unwrap()
PlaybackBestStream ==
    /\ playback = "best"
    /\ IF TheSource.hasVideo
       THEN /\ playback' = "start"
            /\ UNCHANGED << panic_cause, packet_sender, control_sender >>
       ELSE PlaybackPanics("UnsupportedStreamError")
    /\ UNCHANGED << now, uiVars, next_packet, sending, forwarder_done,
                    packet_receiver, control_receiver, queue, clock, workerVars,
                    displayVars, historyVars, controlVars, clock_call, convert_call, sessions >>

\* The control receiver is a local of VideoDecoder::start that the spawned
\* closure does not capture: it is dropped when start returns.
ControlReceiverKept == TRUE

ControlReceiverAfterStart == FALSE

\* VideoDecoder::start: both channels, the codec context (unwrap), the
\* StreamClock, the Receiver Thread; returns the VideoDecoder.
VideoDecoderStart ==
    /\ playback = "start"
    /\ IF TheSource.codecOk
       THEN /\ playback' = "outer_loop"
            /\ packet_sender' = TRUE
            /\ control_sender' = TRUE
            /\ packet_receiver' = TRUE
            /\ control_receiver' = ControlReceiverAfterStart
            /\ clock' = StreamClockNew(TheSource.time_base, now)
            /\ worker' = "outer_loop"
            /\ UNCHANGED panic_cause
       ELSE /\ PlaybackPanics("DecoderInitError")
            /\ UNCHANGED << packet_receiver, control_receiver, clock, worker >>
    /\ UNCHANGED << now, uiVars, next_packet, sending, forwarder_done, queue,
                    receiver_done, packet, frame, wake, pixel_buffer,
                    displayVars, historyVars, controlVars, clock_call, convert_call, sessions >>

\* loop { packet_forwarder = Some(packet_forwarder_impl.clone()); pin_mut! }
\* (playing is the constant true)
PlaybackOuterLoop ==
    /\ playback = "outer_loop"
    /\ playback' = "select"
    /\ UNCHANGED << now, uiVars, panic_cause, next_packet, sending,
                    forwarder_done, channelVars, clock, workerVars,
                    displayVars, historyVars, controlVars, clock_call, convert_call, sessions >>

\* a select! that finds its only future terminated and, having no
\* `complete` branch, panics
SelectOnTerminated == "panicked"

\* select! on a fresh clone of the completed shared future: the clone is
\* not terminated and is ready at once, the branch body is empty and the
\* `loop` goes round again
SelectOnCompleted == "outer_loop"

\* select! { _ = packet_forwarder => {} }: a clone of the completed shared
\* future is ready at once and the loop goes round again; otherwise the
\* poll runs the forwarder.
PlaybackSelect ==
    /\ playback = "select"
    /\ playback' = IF forwarder_done THEN SelectOnCompleted ELSE "packets"
    /\ UNCHANGED << now, uiVars, panic_cause, next_packet, sending,
                    forwarder_done, channelVars, clock, workerVars,
                    displayVars, historyVars, controlVars, clock_call, convert_call, sessions >>

\* every packet taken, whatever its stream
IsSelectedAny(p) == TRUE

\* for (stream, packet) in ictx.packets() { if stream.index() == vs_idx ..
\* The index of the best video stream is VideoStreamIdx in every source.
IsSelected(p) == p.stream = VideoStreamIdx

PlaybackNextPacket ==
    /\ playback = "packets"
    /\ IF next_packet > Len(Packets)
       THEN /\ forwarder_done' = TRUE
            /\ playback' = "outer_loop"
            /\ UNCHANGED << next_packet, sending >>
       ELSE /\ next_packet' = next_packet + 1
            /\ UNCHANGED forwarder_done
            /\ IF IsSelected(Packets[next_packet])
               THEN /\ sending' = next_packet
                    /\ playback' = "receive_packet"
               ELSE UNCHANGED << sending, playback >>
    /\ UNCHANGED << now, uiVars, panic_cause, channelVars, clock, workerVars,
                    displayVars, historyVars, controlVars, clock_call, convert_call, sessions >>

\* a forwarder that unwraps the failed send
ForwarderPanicsOnFalse == "panicked"

\* video_decoder.receive_packet(packet); the result is dropped, and the
\* `for` loop goes on with the next packet
ForwarderAfterFalse == "packets"

\* VideoDecoder::receive_packet: packet_sender.send(packet) blocks while the
\* channel is full, fails at once when the receiver is gone; the forwarder
\* ignores the result.
ReceivePacket ==
    /\ playback = "receive_packet"
    /\ IF ~packet_receiver
       THEN /\ forwarded' = Append(forwarded, << sending, FALSE >>)
            /\ UNCHANGED queue
       ELSE /\ ChannelHasRoom(queue)
            /\ queue' = Append(queue, sending)
            /\ forwarded' = Append(forwarded, << sending, TRUE >>)
    /\ playback' = IF ~packet_receiver THEN ForwarderAfterFalse ELSE "packets"
    /\ sending' = 0
    /\ UNCHANGED << now, uiVars, panic_cause, next_packet, forwarder_done,
                    packet_sender, control_sender, packet_receiver,
                    control_receiver, clock, workerVars, displayVars,
                    received, fed, delivered, controlVars, clock_call, convert_call, sessions >>

(* ------------------------------------------------------------------ *)
(* Receiver Thread: the closure spawned by VideoDecoder::start          *)
(* ------------------------------------------------------------------ *)
\* A panic unwinds the thread: the packet receiver is dropped and the
\* packets still buffered in the channel are dropped with it.
WorkerPanics ==
    /\ worker' = "panicked"
    /\ packet_receiver' = FALSE
    /\ queue' = << >>

\* loop { packet_receiver = Some(packet_receiver_impl.clone()); pin_mut! }
\* (playing is the constant true)
WorkerOuterLoop ==
    /\ worker = "outer_loop"
    /\ worker' = "select"
    /\ UNCHANGED << now, uiVars, playbackVars, channelVars, clock,
                    receiver_done, packet, frame, wake, pixel_buffer,
                    displayVars, historyVars, controlVars, clock_call, convert_call, sessions >>

\* select! { _ = packet_receiver => {} }
WorkerSelect ==
    /\ worker = "select"
    /\ worker' = IF receiver_done THEN "outer_loop" ELSE "recv"
    /\ UNCHANGED << now, uiVars, playbackVars, channelVars, clock,
                    receiver_done, packet, frame, wake, pixel_buffer,
                    displayVars, historyVars, controlVars, clock_call, convert_call, sessions >>

\* let Ok(packet) = packet_receiver.recv() else { break }: blocks while the
\* channel is empty and a sender exists; an empty channel without sender
\* ends packet_receiver_impl, and control is back in the outer loop.
WorkerRecv ==
    /\ worker = "recv"
    /\ IF queue # << >>
       THEN /\ packet' = ChannelRecv(queue).msg
            /\ queue' = ChannelRecv(queue).rest
            /\ received' = Append(received, ChannelRecv(queue).msg)
            /\ worker' = "yield_now"
            /\ UNCHANGED receiver_done
       ELSE /\ ~packet_sender
            /\ receiver_done' = TRUE
            /\ worker' = "outer_loop"
            /\ UNCHANGED << packet, queue, received >>
    /\ UNCHANGED << now, uiVars, playbackVars, packet_sender, control_sender,
                    packet_receiver, control_receiver, clock, frame, wake,
                    pixel_buffer, displayVars, forwarded, fed, delivered,
                    controlVars, clock_call, convert_call, sessions >>

\* a first poll that returns Pending without waking the task
YieldNowNotWoken == FALSE

\* YieldNow::poll: the first poll calls cx.waker().wake_by_ref() before it
\* returns Pending, so block_on polls again
YieldNowWoken == TRUE

\* yield_now().await: pending once, woken at once, polled again
WorkerYieldNow ==
    /\ worker = "yield_now"
    /\ YieldNowWoken
    /\ worker' = "send_packet"
    /\ UNCHANGED << now, uiVars, playbackVars, channelVars, clock,
                    receiver_done, packet, frame, wake, pixel_buffer,
                    displayVars, historyVars, controlVars, clock_call, convert_call, sessions >>

\* packet_decoder.send_packet(&packet).unwrap()
WorkerSendPacket ==
    /\ worker = "send_packet"
    /\ IF Packets[packet].ok
       THEN /\ fed' = Append(fed, packet)
            /\ frame' = 1
            /\ worker' = "receive_frame"
            /\ UNCHANGED << packet_receiver, queue >>
       ELSE /\ WorkerPanics
            /\ UNCHANGED << fed, frame >>
    /\ UNCHANGED << now, uiVars, playbackVars, packet_sender, control_sender,
                    control_receiver, clock, receiver_done, packet, wake,
                    pixel_buffer, displayVars, forwarded, received, delivered,
                    controlVars, clock_call, convert_call, sessions >>

Delivery(pkt, frm, pts, slept) == [packet |-> pkt, frame |-> frm, pts |-> pts, slept |-> slept]

\* while packet_decoder.receive_frame(&mut decoded_frame).is_ok() {
\*     if let Some(delay) = clock.convert_pts_to_instant(decoded_frame.pts())
\* A frame without delay goes to frame_callback at once.
WorkerReceiveFrame ==
    /\ worker = "receive_frame"
    /\ IF frame > Len(Packets[packet].frames)
       THEN /\ worker' = "recv"
            /\ frame' = 0
            /\ UNCHANGED << packet_receiver, queue, wake, delivered >>
       ELSE LET pts == Packets[packet].frames[frame]
                delay == convert_pts_to_instant(clock, pts, now)
            IN  IF delay.kind = "panic"
                THEN /\ WorkerPanics
                     /\ UNCHANGED << frame, wake, delivered >>
                ELSE IF IsSome(delay.val)
                THEN /\ wake' = now + Unwrap(delay.val)
                     /\ worker' = "sleep"
                     /\ UNCHANGED << packet_receiver, queue, frame, delivered >>
                ELSE /\ worker' = "frame_callback"
                     /\ delivered' = Append(delivered, Delivery(packet, frame, pts, FALSE))
                     /\ UNCHANGED << packet_receiver, queue, frame, wake >>
    /\ UNCHANGED << now, uiVars, playbackVars, packet_sender, control_sender,
                    control_receiver, clock, receiver_done, packet,
                    pixel_buffer, displayVars, forwarded, received, fed,
                    controlVars, clock_call, convert_call, sessions >>

\* a sleep that returns at once
SleepIsOverAtOnce(instant, wake_at) == TRUE

\* std::thread::sleep(delay) returns no earlier than `delay` after the call
SleepIsOver(instant, wake_at) == instant >= wake_at

\* std::thread::sleep(delay), then frame_callback(&decoded_frame) is called.
WorkerSleep ==
    /\ worker = "sleep"
    /\ SleepIsOver(now, wake)
    /\ worker' = "frame_callback"
    /\ delivered' = Append(delivered,
                           Delivery(packet, frame, Packets[packet].frames[frame], TRUE))
    /\ UNCHANGED << now, uiVars, playbackVars, channelVars, clock,
                    receiver_done, packet, frame, wake, pixel_buffer,
                    displayVars, forwarded, received, fed, controlVars, clock_call, convert_call, sessions >>

\* frame_callback: the rows of the converted frame are copied one by one
\* into a pixel buffer local to the call.  The conversion itself (rescaler,
\* run) is taken to succeed on every frame the codec yields.
CallbackCopyRow ==
    /\ worker = "frame_callback"
    /\ Len(pixel_buffer) < FrameRows
    /\ pixel_buffer' = Append(pixel_buffer, FrameTag(packet, frame))
    /\ UNCHANGED << now, uiVars, playbackVars, channelVars, clock, worker,
                    receiver_done, packet, frame, wake, displayVars,
                    historyVars, controlVars, clock_call, convert_call, sessions >>

\* frame_callback: content.set(texture) once the buffer is complete; the
\* callback returns and the drain loop asks for the next frame.
CallbackSet ==
    /\ worker = "frame_callback"
    /\ Len(pixel_buffer) = FrameRows
    /\ contents' = DynamicSet(contents, pixel_buffer)
    /\ writers' = writers \cup { "Receiver Thread" }
    /\ pixel_buffer' = << >>
    /\ frame' = frame + 1
    /\ worker' = "receive_frame"
    /\ UNCHANGED << now, uiVars, playbackVars, channelVars, clock,
                    receiver_done, packet, wake, observed, historyVars,
                    controlVars, clock_call, convert_call, sessions >>

(* ------------------------------------------------------------------ *)
(* The owner of the VideoDecoder using its control API                  *)
(* ------------------------------------------------------------------ *)
Commands == { "Play", "Pause", "Stop" }

\* VideoDecoder::send_control_message: control_sender.send(message).unwrap().
\* The program never calls it; here the thread that owns the VideoDecoder
\* calls it between two packets of its loop.  A send without receiver fails
\* and the unwrap panics in the calling thread.
SendControlMessage(message) ==
    /\ playback = "packets"
    /\ control_sender
    /\ Len(control_sent) < MaxControl
    /\ control_sent' = Append(control_sent, message)
    /\ stop_mark' = IF message = "Stop" /\ stop_mark = -1 THEN Len(received) ELSE stop_mark
    /\ pause_mark' = CASE message = "Pause" -> Len(received)
                       [] message = "Play"  -> -1
                       [] OTHER             -> pause_mark
    /\ IF control_receiver
       THEN UNCHANGED << playback, panic_cause, packet_sender, control_sender >>
       ELSE PlaybackPanics("SendError")
    /\ UNCHANGED << now, uiVars, next_packet, sending, forwarder_done,
                    packet_receiver, control_receiver, queue, clock, workerVars,
                    displayVars, historyVars, clock_call, convert_call, sessions >>

(* ------------------------------------------------------------------ *)
(* StreamClock on its own                                               *)
(* ------------------------------------------------------------------ *)
\* clock.convert_pts_to_instant(pts) on a clock started at `start`, called
\* `late` ms after the start
ClockCall(tb, start, late, pts) ==
    /\ clock_call = NoCall
    /\ clock_call' = ClockCallOf(StreamClockNew(tb, start), pts, start + late)
    /\ UNCHANGED << now, uiVars, playbackVars, channelVars, clock, workerVars,
                    displayVars, historyVars, controlVars, convert_call, sessions >>

(* ------------------------------------------------------------------ *)
(* The row copy of the frame callback on its own                        *)
(* ------------------------------------------------------------------ *)
\* let mut pixel_buffer = ImageBuffer::new(width, height), on a converted
\* frame of the given size and padding
ConvertBegin(width, height, padding, first) ==
    /\ convert_call = NoConvert
    /\ convert_call' = ConvertOf(RgbFrame(width, height, padding, first))
    /\ UNCHANGED << now, uiVars, playbackVars, channelVars, clock, workerVars,
                    displayVars, historyVars, controlVars, clock_call, sessions >>

\* for (source, dest) in source_line_iter.zip(pixel_line_iter) {
\*     dest.copy_from_slice(&source[..dest.len()]); }
ConvertCopyLine ==
    /\ convert_call # NoConvert
    /\ convert_call.line <= ZippedLines(convert_call)
    /\ LET f == convert_call.rgb_frame
           line_len == f.width * BytesPerPixel
           source == ChunksExact(f.data, f.stride)[convert_call.line]
       IN  convert_call' =
               [convert_call EXCEPT
                   !.pixel_buffer = CopyIntoLine(@, line_len, convert_call.line,
                                                 SourcePrefix(source, line_len)),
                   !.line = @ + 1]
    /\ UNCHANGED << now, uiVars, playbackVars, channelVars, clock, workerVars,
                    displayVars, historyVars, controlVars, clock_call, sessions >>

(* ------------------------------------------------------------------ *)
(* Source changes: App::handle_video_source over several sources        *)
(* ------------------------------------------------------------------ *)
\* The sources picked here: the three that fail to open and the one that
\* opens, their containers empty
SessionSources == { src \in Sources : src.packets = << >> }

\* What one run of the switcher closure on Some(path) has led to: the
\* position of its Playback Thread, the calls of VideoDecoder::start made
\* by that thread and the Receiver Threads spawned by them
Session(src) == [source |-> src, playback |-> "input", starts |-> 0, receivers |-> 0]

\* file_picker: source.set(Some(path)) with a path other than the stored
\* one; the switcher closure builds a new VideoPlayer whose start spawns a
\* Playback Thread.  The threads of the sources before it run on.
SourceChange(src) ==
    /\ Len(sessions) < MaxSources
    /\ video_source # Some(src)
    /\ video_source' = Some(src)
    /\ sessions' = Append(sessions, Session(src))
    /\ UNCHANGED << now, player, playbackVars, channelVars, clock, workerVars,
                    displayVars, historyVars, controlVars, clock_call, convert_call >>

\* ffmpeg::format::input(&path).unwrap() in the thread of session i
SessionInput(i) ==
    /\ sessions[i].playback = "input"
    /\ sessions' = [sessions EXCEPT ![i].playback =
                        IF sessions[i].source.openOk THEN "best" ELSE "panicked"]
    /\ UNCHANGED << now, uiVars, playbackVars, channelVars, clock, workerVars,
                    displayVars, historyVars, controlVars, clock_call, convert_call >>

\* ictx.streams().best(Type::Video).unwrap() in the thread of session i
SessionBestStream(i) ==
    /\ sessions[i].playback = "best"
    /\ sessions' = [sessions EXCEPT ![i].playback =
                        IF sessions[i].source.hasVideo THEN "start" ELSE "panicked"]
    /\ UNCHANGED << now, uiVars, playbackVars, channelVars, clock, workerVars,
                    displayVars, historyVars, controlVars, clock_call, convert_call >>

\* back to the call of VideoDecoder::start
SessionAgainStart == "start"

\* Where the Playback Thread goes on once VideoDecoder::start has returned:
\* the forwarder and the outer loop, which never lead back to the call
SessionAfterStart == "outer_loop"

\* VideoDecoder::start in the thread of session i: one call, which spawns
\* one Receiver Thread unless the codec context fails (unwrap)
SessionStart(i) ==
    /\ sessions[i].playback = "start"
    /\ sessions' = [sessions EXCEPT
                        ![i].starts = @ + 1,
                        ![i].receivers = IF sessions[i].source.codecOk THEN @ + 1 ELSE @,
                        ![i].playback = IF sessions[i].source.codecOk
                                        THEN SessionAfterStart ELSE "panicked"]
    /\ UNCHANGED << now, uiVars, playbackVars, channelVars, clock, workerVars,
                    displayVars, historyVars, controlVars, clock_call, convert_call >>

(* ------------------------------------------------------------------ *)
(* Specifications                                                       *)
(* ------------------------------------------------------------------ *)
\* The steps of the two pipeline threads
PipelineNext ==
    \/ PlaybackInput
    \/ PlaybackBestStream
    \/ VideoDecoderStart
    \/ PlaybackOuterLoop
    \/ PlaybackSelect
    \/ PlaybackNextPacket
    \/ ReceivePacket
    \/ WorkerOuterLoop
    \/ WorkerSelect
    \/ WorkerRecv
    \/ WorkerYieldNow
    \/ WorkerSendPacket
    \/ WorkerReceiveFrame
    \/ WorkerSleep
    \/ CallbackCopyRow
    \/ CallbackSet

\* The steps of each of the two threads
PlaybackThread ==
    \/ PlaybackInput
    \/ PlaybackBestStream
    \/ VideoDecoderStart
    \/ PlaybackOuterLoop
    \/ PlaybackSelect
    \/ PlaybackNextPacket
    \/ ReceivePacket

ReceiverThread ==
    \/ WorkerOuterLoop
    \/ WorkerSelect
    \/ WorkerRecv
    \/ WorkerYieldNow
    \/ WorkerSendPacket
    \/ WorkerReceiveFrame
    \/ WorkerSleep
    \/ CallbackCopyRow
    \/ CallbackSet

\* The program
Next ==
    \/ Tick
    \/ \E src \in Sources : OpenVideo(src)
    \/ DropVideoPlayer
    \/ Redraw
    \/ PipelineNext

Spec == Init /\ [][Next]_vars

\* The pipeline of an opened source whose owner of the VideoDecoder uses
\* send_control_message
NextApi ==
    \/ Tick
    \/ \E src \in Sources : OpenVideo(src)
    \/ PipelineNext
    \/ \E message \in Commands : SendControlMessage(message)

SpecApi == Init /\ [][NextApi]_vars

\* StreamClock::convert_pts_to_instant called on arbitrary inputs
NextClock ==
    \E tb \in TimeBases, start \in ClockStarts, late \in ClockLateness, pts \in ClockPts :
        ClockCall(tb, start, late, pts)

SpecClock == Init /\ [][NextClock]_vars

\* The pipeline playing the 25 fps source
NextPacing ==
    \/ Tick
    \/ OpenVideo(Source25fps)
    \/ PipelineNext

SpecPacing == Init /\ [][NextPacing]_vars

\* The pipeline of an opened source under fair scheduling: time passes,
\* and a thread that can take a step takes one
NextFair ==
    \/ Tick
    \/ \E src \in Sources : OpenVideo(src)
    \/ PlaybackThread
    \/ ReceiverThread

SpecFair ==
    /\ Init
    /\ [][NextFair]_vars
    /\ WF_vars(Tick)
    /\ WF_vars(PlaybackThread)
    /\ WF_vars(ReceiverThread)

\* The row copy of the frame callback on frames of every size and padding
NextConvert ==
    \/ \E width \in 1..MaxFrameWidth, height \in 1..FrameRows,
          padding \in 0..MaxPadding, first \in FirstBytes :
           ConvertBegin(width, height, padding, first)
    \/ ConvertCopyLine

SpecConvert == Init /\ [][NextConvert]_vars

\* Any sequence of source changes, and the Playback Thread of each
NextSources ==
    \/ \E src \in SessionSources : SourceChange(src)
    \/ \E i \in DOMAIN sessions : SessionInput(i) \/ SessionBestStream(i) \/ SessionStart(i)

SpecSources == Init /\ [][NextSources]_vars

(* ------------------------------------------------------------------ *)
(* Properties                                                           *)
(* ------------------------------------------------------------------ *)
Range(s) == { s[i] : i \in DOMAIN s }
Opened == video_source # None
ThreadEnded(pc) == pc \in { "unspawned", "panicked", "terminated" }
Prefix(s, n) == SubSeq(s, 1, IF n < Len(s) THEN n ELSE Len(s))

\* C1: the packet channel never holds more packets than its capacity, a
\* send on a full channel does not complete, and every packet the forwarder
\* has passed to receive_packet is still queued or has been received by
\* the worker.
C1_NoPacketLost ==
    /\ Len(queue) <= ChannelCapacity
    /\ (playback = "receive_packet" /\ packet_receiver /\ Len(queue) = ChannelCapacity)
           => ~ENABLED ReceivePacket
    /\ \A i \in DOMAIN forwarded :
           forwarded[i][1] \in Range(queue) \cup Range(received)

\* C2: packets are received and fed to the codec in the order they were
\* read from the container, frames reach the callback in decode order, and
\* a frame of a packet is delivered only after every frame of the packets
\* fed before it.
C2_Order ==
    /\ \A i, j \in DOMAIN received : i < j => received[i] < received[j]
    /\ \A i, j \in DOMAIN fed : i < j => fed[i] < fed[j]
    /\ \A i, j \in DOMAIN delivered :
           i < j => \/ delivered[i].packet < delivered[j].packet
                    \/ /\ delivered[i].packet = delivered[j].packet
                       /\ delivered[i].frame < delivered[j].frame
    /\ \A j \in DOMAIN delivered :
           /\ delivered[j].packet \in Range(fed)
           /\ \A p \in Range(fed) :
                  p < delivered[j].packet =>
                      \A f \in DOMAIN Packets[p].frames :
                          \E i \in 1..(j - 1) :
                              delivered[i].packet = p /\ delivered[i].frame = f

\* Frames of two packets have been delivered, the second packet having
\* waited in the channel behind the first
C2_Witness ==
    /\ Len(fed) >= 2
    /\ \E i, j \in DOMAIN delivered : delivered[i].packet # delivered[j].packet

\* C3: once the worker's receive has seen the packet channel disconnected,
\* the Receiver Thread has terminated.
C3_WorkerExitsOnDisconnect == receiver_done => worker = "terminated"

\* C4: after Stop has been sent the worker takes at most one more packet
\* from the channel, and delivers frames of no later packet.
C4_StopBound ==
    stop_mark >= 0 =>
        /\ Len(received) <= stop_mark + 1
        /\ \A i \in DOMAIN delivered :
               delivered[i].packet \in Range(Prefix(received, stop_mark + 1))

\* C5: once the VideoPlayer has been dropped, neither the Playback Thread
\* nor the Receiver Thread is alive.
C5_DropJoinsThreads ==
    (Opened /\ ~player.alive) => ThreadEnded(playback) /\ ThreadEnded(worker)

\* C6: the worker is never ended by a packet the codec rejects.
C6_DecodeErrorSkipped ==
    ~(worker = "panicked" /\ ~Packets[packet].ok)

\* C7: a failure to open the file, to find a video stream or to build the
\* codec never shows as a panic of a spawned thread.
OpenFailures == { "OpenError", "UnsupportedStreamError", "DecoderInitError" }

C7_OpenFailuresReturned ==
    ~(playback = "panicked" /\ panic_cause \in OpenFailures)

\* C8: the display slot is written by the Receiver Thread only, and both
\* the slot and what a redraw has read from it hold either the placeholder
\* or all the rows of one delivered frame.
IsWholeTexture(texture) ==
    /\ \A r \in DOMAIN texture : texture[r] = texture[1]
    /\ \/ texture[1] = PlaceholderTag
       \/ \E i \in DOMAIN delivered :
              texture[1] = FrameTag(delivered[i].packet, delivered[i].frame)

C8_WholeFrames ==
    /\ writers \subseteq { "Receiver Thread" }
    /\ IsWholeTexture(contents)
    /\ IsWholeTexture(observed)

\* A redraw has read a frame, the slot holds a later one and the callback
\* is part-way through copying the rows of a third
C8_Witness ==
    /\ observed # PlaceholderTexture
    /\ contents # observed
    /\ worker = "frame_callback"
    /\ Len(pixel_buffer) = 1

\* C9: for a present pts the result is max(0, start + pts * time base - now)
Max0(x) == IF x > 0 THEN x ELSE 0

C9_SaturatedDelay ==
    (clock_call # NoCall /\ IsSome(clock_call.pts)) =>
        clock_call.result =
            Ok(Some(Max0(clock_call.clock.start_time
                         + PtsMillis(clock_call.clock, Unwrap(clock_call.pts))
                         - clock_call.instant)))

\* C10: the clock maps an absent pts to an absent delay, the worker sleeps
\* only for a frame that has a pts, and every delivered frame without pts
\* went to the callback without a sleep.
C10_AbsentPts ==
    /\ convert_pts_to_instant(clock, None, now) = Ok(None)
    /\ worker = "sleep" => IsSome(Packets[packet].frames[frame])
    /\ \A i \in DOMAIN delivered : ~IsSome(delivered[i].pts) => ~delivered[i].slept

\* A frame without pts has been delivered
C10_Witness ==
    \E i \in DOMAIN delivered : ~IsSome(delivered[i].pts)

\* C11 (as stated): on the 25 fps source the delay the worker computes for
\* the frame with pts p is p * 40 ms: 0, 40, 80, 120, 160 ms for pts 0..4.
C11_ClaimedDelays ==
    [][(worker = "receive_frame" /\ worker' = "sleep") =>
           wake' - now = PtsMillis(clock, Unwrap(Packets[packet].frames[frame]))]_vars

\* C11 (amended): the delay the worker computes for the frame with pts p is
\* max(0, start + p * 40 ms - now), `now` being the instant of the
\* computation: it is at most p * 40 ms, and for every frame after the
\* first delivered one at most the 40 ms of one frame interval.
C11_DelayFromNow ==
    [][(worker = "receive_frame" /\ worker' = "sleep") =>
           LET p == Unwrap(Packets[packet].frames[frame])
               delay == wake' - now
           IN  /\ delay = Max0(clock.start_time + PtsMillis(clock, p) - now)
               /\ delay <= PtsMillis(clock, p)
               /\ Len(delivered) >= 1 => delay <= PtsMillis(clock, 1)]_vars

\* The worker sleeps before the fifth frame (pts 4) of the 25 fps source,
\* the four frames before it delivered
C11_Witness ==
    /\ video_source = Some(Source25fps)
    /\ worker = "sleep"
    /\ Packets[packet].frames[frame] = Some(4)
    /\ Len(delivered) = 4
    /\ wake - now < PtsMillis(clock, 4)

\* C12: once the forwarder has read the container to its end, the Playback
\* Thread has terminated and its packet sender has been dropped.
C12_SenderDroppedAtEnd ==
    forwarder_done => (ThreadEnded(playback) /\ ~packet_sender)

\* C13: while paused (after Pause, no Play since) the worker takes at most
\* the packet of the iteration in progress from the channel, and delivers
\* frames of no later packet.
C13_PausedTakesNoPacket ==
    pause_mark >= 0 =>
        /\ Len(received) <= pause_mark + 1
        /\ \A i \in DOMAIN delivered :
               delivered[i].packet \in Range(Prefix(received, pause_mark + 1))

\* C14: every source change leads to at most one call of VideoDecoder::start
\* and one Receiver Thread, and to exactly one of each once its Playback
\* Thread is past the call; this for every source of any sequence.
C14_OneWorkerPerSource ==
    \A i \in DOMAIN sessions :
        /\ sessions[i].starts <= 1
        /\ sessions[i].receivers <= sessions[i].starts
        /\ sessions[i].playback = "outer_loop" =>
               sessions[i].starts = 1 /\ sessions[i].receivers = 1
        /\ sessions[i].playback \in { "input", "best", "start" } =>
               sessions[i].starts = 0

\* The source has changed twice; the first and the third source each run
\* their one Receiver Thread
C14_Witness ==
    /\ Len(sessions) = 3
    /\ sessions[1].receivers = 1
    /\ sessions[3].receivers = 1

\* C15: the pixel buffer holds width * height * 3 bytes, and once the copy
\* is over every line r of it is the first width * 3 bytes of line r of
\* the source plane taken at the source stride; no byte of the padding of
\* a source line is in the buffer.
C15_PackedRows ==
    convert_call # NoConvert =>
        LET f == convert_call.rgb_frame
            line_len == f.width * 3
        IN  /\ Len(convert_call.pixel_buffer) = f.width * f.height * 3
            /\ convert_call.line > f.height =>
                   /\ \A r \in 1..f.height : \A c \in 1..line_len :
                          convert_call.pixel_buffer[(r - 1) * line_len + c]
                              = f.data[(r - 1) * f.stride + c]
                   /\ \A r \in 1..f.height : \A c \in (line_len + 1)..f.stride :
                          f.data[(r - 1) * f.stride + c] \notin Range(convert_call.pixel_buffer)
            /\ convert_call.line <= f.height => ENABLED ConvertCopyLine

\* The copy of a frame of two lines with padding is over
C15_Witness ==
    /\ convert_call # NoConvert
    /\ convert_call.rgb_frame.height = 2
    /\ convert_call.rgb_frame.stride > convert_call.rgb_frame.width * 3
    /\ convert_call.line > convert_call.rgb_frame.height

\* C16: every packet passed to receive_packet, and every packet in the
\* packet channel, is of the selected video stream; a packet of another
\* stream that has been read is neither sent nor about to be, and every
\* packet of the selected stream that has been read is.
C16_OnlySelectedForwarded ==
    /\ \A i \in DOMAIN forwarded : Packets[forwarded[i][1]].stream = VideoStreamIdx
    /\ \A i \in DOMAIN queue : Packets[queue[i]].stream = VideoStreamIdx
    /\ \A p \in 1..(next_packet - 1) :
           IF Packets[p].stream = VideoStreamIdx
           THEN p = sending \/ \E i \in DOMAIN forwarded : forwarded[i][1] = p
           ELSE p # sending /\ \A i \in DOMAIN forwarded : forwarded[i][1] # p

\* A packet of another stream has been read and skipped, and a video
\* packet read after it is in the channel
C16_Witness ==
    \E p \in 1..(next_packet - 1) :
        /\ Packets[p].stream = OtherStreamIdx
        /\ \E i \in DOMAIN queue : queue[i] > p

\* C17: while the callback runs on a frame with pts p the clock reads at
\* least start + p * time base, and every delivered frame with a pts went
\* to the callback after the sleep for its delay.
C17_NotBeforePts ==
    /\ worker = "frame_callback" =>
           LET pts == Packets[packet].frames[frame]
           IN  IsSome(pts) => now >= clock.start_time + PtsMillis(clock, Unwrap(pts))
    /\ \A i \in DOMAIN delivered : IsSome(delivered[i].pts) => delivered[i].slept

\* The callback runs on the frame with pts 2 at the very instant
\* start + 80 ms, the worker having slept until then
C17_Witness ==
    /\ worker = "frame_callback"
    /\ Packets[packet].frames[frame] = Some(2)
    /\ now = clock.start_time + 80
    /\ delivered[Len(delivered)].slept

\* C18: no packet is received or fed twice, and in a source without a
\* packet the codec rejects every packet of the selected stream that the
\* forwarder has read is eventually fed to the codec.
NoDecodeFailure == \A i \in DOMAIN Packets : Packets[i].ok

C18_ConsumedOnce ==
    /\ [](\A i, j \in DOMAIN received : i # j => received[i] # received[j])
    /\ [](\A i, j \in DOMAIN fed : i # j => fed[i] # fed[j])
    /\ \A p \in 1..MaxPackets :
           (sending = p /\ NoDecodeFailure) ~> (p \in Range(fed))

\* Three video packets have been read and fed, the third having waited
\* for room in the full channel
C18_Witness ==
    /\ Len(fed) = 3
    /\ Len(forwarded) = 3
    /\ forwarder_done
    /\ NoDecodeFailure

\* C19: once VideoDecoder::start has spawned the Receiver Thread the
\* receiving end of the control channel does not exist; every call of
\* send_control_message panics the caller with a send error, and the step
\* of the call leaves the worker, its packet receiver and the queued
\* packets as they were.
C19_ControlNeverReceived ==
    /\ [](worker # "unspawned" => ~control_receiver)
    /\ [](control_sent # << >> =>
              /\ playback = "panicked"
              /\ panic_cause = "SendError"
              /\ Len(control_sent) = 1)
    /\ [][control_sent' # control_sent =>
              /\ workerVars' = workerVars
              /\ packet_receiver' = packet_receiver
              /\ queue' = queue
              /\ clock' = clock]_vars

\* Pause has been sent: its caller has panicked while the worker waits in
\* recv for a packet
C19_Witness ==
    /\ control_sent = << "Pause" >>
    /\ playback = "panicked"
    /\ worker = "recv"

\* C20: with the packet receiver gone a call of receive_packet does not
\* block; a packet whose send failed is never queued, received or fed; the
\* Playback Thread does not panic over it and reports no error; the
\* forwarder ends only at the end of the container, and after a failed
\* send it does get there.
SendFailed == \E i \in DOMAIN forwarded : ~forwarded[i][2]

C20_SendFailureIgnored ==
    /\ []((playback = "receive_packet" /\ ~packet_receiver) => ENABLED ReceivePacket)
    /\ [](\A i \in DOMAIN forwarded :
              ~forwarded[i][2] =>
                  /\ ~packet_receiver
                  /\ forwarded[i][1] \notin Range(queue) \cup Range(received) \cup Range(fed))
    /\ [](SendFailed => (~ThreadEnded(playback) /\ panic_cause = "none"))
    /\ [](forwarder_done => next_packet = Len(Packets) + 1)
    /\ SendFailed ~> forwarder_done

\* The sends of two packets have failed and the forwarder has read the
\* container to its end
C20_Witness ==
    /\ forwarder_done
    /\ \E i, j \in DOMAIN forwarded : i # j /\ ~forwarded[i][2] /\ ~forwarded[j][2]

\* C21: once the forwarder has read the container to its end the Playback
\* Thread goes on round its loop for ever, still holding the packet
\* sender; the worker never sees the channel disconnected, and no thread
\* ever terminates; in a source without a packet the codec rejects the
\* worker ends up blocked for ever in recv on the empty channel.
C21_NeverShutsDown ==
    /\ [](forwarder_done => (playback \in { "outer_loop", "select" } /\ packet_sender))
    /\ [](~receiver_done /\ worker # "terminated" /\ playback # "terminated")
    /\ forwarder_done ~> (playback = "select")
    /\ (forwarder_done /\ NoDecodeFailure) ~>
           [](worker = "recv" /\ queue = << >> /\ ~ENABLED WorkerRecv)

\* The container is exhausted, its three packets fed; the Playback Thread
\* is in its loop with the sender and the worker waits in recv
C21_Witness ==
    /\ forwarder_done
    /\ Len(fed) = 3
    /\ playback = "select"
    /\ packet_sender
    /\ worker = "recv"
    /\ queue = << >>
    /\ ~ENABLED WorkerRecv

====
